---- MODULE Spec2Model ----
(***************************************************************************)
(* Repository synchronisation and test-suite reconciliation of the         *)
(* TestCaseGenerator application (src/app.py display_chat, src/app.py      *)
(* remove_test_cases_from_csv, src/csv_handler.py CSVHandler,              *)
(* src/test_generator.py TestGenerator, src/llm_handler.py LLMHandler).    *)
(*                                                                         *)
(* A file path is a sequence of path segments, a CSV row is a record of    *)
(* the columns the reconciliation reads or writes, a suite file is a       *)
(* record on the modelled disk.                                            *)
(***************************************************************************)
EXTENDS Integers, Sequences, FiniteSets, TLC

VARIABLES
  pc,               \* position of the session: which handler step runs next
  now,              \* number of synchronisations started (also the clock)
  cloned,           \* a local working copy exists under temp_repos/
  tracked,          \* code files of the working copy at HEAD
  disk,             \* the files written so far (suite CSVs and temp CSVs)
  current_repo_csv, \* st.session_state.current_repo_csv[url] (0 = no entry)
  change_info,      \* normalised change descriptor of this run
  added_files, modified_files, deleted_files,
  code_files,       \* files handed to the parser
  parsed,           \* keys of the parsed dict, in insertion order
  tests,            \* new test dicts of this run (all types, in dict order)
  has_tests,        \* truthiness of the tests dict (app.py `if tests:`)
  prev_csv,         \* previous suite file found by the lookup (0 = None)
  prev_readable,    \* that file could be opened and decoded during the run
  cleaned_csv,      \* file returned by remove_test_cases_from_csv
  removed_count,
  removal_stats,
  csv_file,         \* resulting suite file of this run (0 = none)
  scanned,          \* get_code_files / get_changed_code_files was called
  llm_calls,        \* generate_tests_for_chunk calls of this run
  result,           \* how the run ended
  start_suite,      \* rows of the repository's suite when the run started
  upstream_commit,  \* head commit of the remote branch (a commit number)
  last_commit,      \* commit stored for the URL after a synchronisation
  fallback_logged,  \* this run logged the fall back to a fresh clone
  req_pc,           \* position of the synthesis batch (test_generator loop)
  chunk,            \* index of the chunk the batch is at
  attempt,          \* _make_request: loop variable of the retry loop
  retry_delay,      \* _make_request: local retry_delay
  sleeps,           \* delays slept by the current request so far
  attempt_log,      \* per chunk of the batch, the outcomes of its attempts
  response,         \* what _make_request returned for the current chunk
  all_unit_tests,   \* rows collected by the batch, chunk by chunk
  scan_tree,        \* get_code_files: the working tree that is walked
  max_files,        \* get_code_files: the argument max_files
  scan_pc,          \* get_code_files: position of the walk
  scan_dir,         \* get_code_files: directory os.walk is at (1 = root)
  scan_idx,         \* get_code_files: index of the next file of it
  scan_files,       \* get_code_files: local code_files
  examined,         \* directories listed and files looked at, in order
  workdirs,         \* working copies under temp_repos/, one per directory
  clone_pc,         \* clone_repository: position of the call
  clone_req,        \* clone_repository: arguments and the state at the call
  clone_branch,     \* clone_repository: local branch
  clone_result,     \* clone_repository: returned ("ok") or raised
  old_parsed,       \* function-level diff: previous parsed version
  new_parsed,       \* function-level diff: current parsed version
  function_changes  \* function-level diff: the change set computed

vars == <<pc, now, cloned, tracked, disk, current_repo_csv, change_info,
          added_files, modified_files, deleted_files, code_files, parsed,
          tests, has_tests, prev_csv, prev_readable, cleaned_csv,
          removed_count, removal_stats, csv_file, scanned, llm_calls, result,
          start_suite, upstream_commit, last_commit, fallback_logged, req_pc,
          chunk, attempt, retry_delay, sleeps, attempt_log, response,
          all_unit_tests, scan_tree, max_files, scan_pc, scan_dir, scan_idx,
          scan_files, examined, workdirs, clone_pc, clone_req, clone_branch,
          clone_result, old_parsed, new_parsed, function_changes>>

----------------------------------------------------------------------------
(* Bounds *)

MaxCycles == 2        \* synchronisations of the repository in one behaviour
MaxRows == 1          \* rows one synthesis reply carries at most
MaxChunks == 2        \* chunks of one synthesis batch
MaxDirFiles == 2      \* files one directory of a scanned tree holds at most
MaxLimit == 2         \* largest max_files a scan is called with
MaxFunctions == 2     \* functions one parsed version of a file holds at most

(* Code files the upstream repository may hold in the session runs *)
Paths == {<<"a.py">>, <<"d1", "u.py">>}

(* Code files of the repository in the reconciliation runs: two of them     *)
(* share the base name u.py in different directories.                       *)
ReconcilePaths == {<<"a.py">>, <<"d1", "u.py">>, <<"d2", "u.py">>}

PathOrder == <<(<<"a.py">>), (<<"d1", "u.py">>), (<<"d2", "u.py">>)>>

TestTypeChoices == {{"Unit Test"}, {"Unit Test", "Functional Test"},
                    {"Functional Test"}}

----------------------------------------------------------------------------
(* Helpers on sequences *)

Range(s) == {s[i] : i \in 1..Len(s)}

RECURSIVE Flatten(_)
Flatten(ss) == IF ss = <<>> THEN <<>> ELSE Head(ss) \o Flatten(Tail(ss))

(* The members of a set of paths, listed in PathOrder *)
InPathOrder(S) == SelectSeq(PathOrder, LAMBDA p : p \in S)

(* pathlib: Path(p).name -- the last segment, '' for the empty path *)
PathName(p) == IF Len(p) = 0 THEN "" ELSE p[Len(p)]

PathNames(ps) == {PathName(ps[i]) : i \in 1..Len(ps)}

----------------------------------------------------------------------------
(* app.py remove_test_cases_from_csv.  display_chat always passes           *)
(* removed_functions=None, so the function-level branch (line 198) is       *)
(* never taken.                                                             *)

(* lines 172-178: the first non-empty name among the columns 'File',        *)
(* 'Source File', 'file', 'Target File'; the suite files only carry         *)
(* 'Source File'.                                                           *)
RowFileName(row) == PathName(row.src)

(* The chain without its elif for modified files *)
RemovalReason_DeletedOnly(row, deleted_file_names, modified_file_names) ==
  LET file_name == PathName(row.src) IN
  IF file_name # "" /\ file_name \in deleted_file_names
    THEN "deleted_file"
  ELSE "keep"

(* lines 180-195: the if / elif chain that decides and counts a removal *)
RemovalReason(row, deleted_file_names, modified_file_names) ==
  LET file_name == RowFileName(row) IN
  IF file_name # "" /\ file_name \in deleted_file_names
    THEN "deleted_file"
  ELSE IF file_name # "" /\ file_name \in modified_file_names
    THEN "modified_file"
  ELSE "keep"

(* A loop that stops removing after the first removed row *)
FilteredRows_FirstMatchOnly(all_rows, deleted_file_names, modified_file_names) ==
  LET hits == {i \in 1..Len(all_rows) :
                 RemovalReason(all_rows[i], deleted_file_names,
                               modified_file_names) # "keep"}
  IN IF hits = {} THEN all_rows
     ELSE LET first == CHOOSE i \in hits : \A j \in hits : i <= j
          IN SubSeq(all_rows, 1, first - 1)
             \o SubSeq(all_rows, first + 1, Len(all_rows))

(* lines 170, 237-238: the rows that are kept *)
FilteredRows(all_rows, deleted_file_names, modified_file_names) ==
  SelectSeq(all_rows, LAMBDA row :
    RemovalReason(row, deleted_file_names, modified_file_names) = "keep")

StatKeys == {"deleted_files", "modified_files", "removed_functions"}

(* Two independent ifs instead of if / elif: a row of a file name that is   *)
(* both deleted and modified is counted twice                               *)
RemovalStats_DoubleCount(all_rows, deleted_file_names, modified_file_names) ==
  [k \in {"deleted_files", "modified_files", "removed_functions"} |->
     IF k = "deleted_files"
       THEN Cardinality({i \in 1..Len(all_rows) :
              PathName(all_rows[i].src) \in deleted_file_names})
     ELSE IF k = "modified_files"
       THEN Cardinality({i \in 1..Len(all_rows) :
              PathName(all_rows[i].src) \in modified_file_names})
     ELSE 0]

(* lines 164-168, 188, 195: removal_stats after the loop *)
RemovalStats(all_rows, deleted_file_names, modified_file_names) ==
  [k \in StatKeys |->
     IF k = "deleted_files"
       THEN Cardinality({i \in 1..Len(all_rows) :
              RemovalReason(all_rows[i], deleted_file_names,
                            modified_file_names) = "deleted_file"})
     ELSE IF k = "modified_files"
       THEN Cardinality({i \in 1..Len(all_rows) :
              RemovalReason(all_rows[i], deleted_file_names,
                            modified_file_names) = "modified_file"})
     ELSE 0]

(* line 145 returns {} as the breakdown *)
EmptyStats == [k \in {} |-> 0]

StatGet(stats, k) == IF k \in DOMAIN stats THEN stats[k] ELSE 0

(* The whole function on the rows of an already opened file: early is the   *)
(* return of line 145 (the file is not read), wrote tells whether a temp    *)
(* file is written (lines 249-259) or csv_path itself is returned (247).    *)
remove_test_cases_from_csv(all_rows, deleted, modified) ==
  IF deleted = <<>> /\ modified = <<>>
    THEN [early |-> TRUE, wrote |-> FALSE, rows |-> all_rows,
          removed_count |-> 0, removal_stats |-> EmptyStats]
  ELSE
    LET deleted_file_names == PathNames(deleted)
        modified_file_names == PathNames(modified)
        filtered_rows == FilteredRows(all_rows, deleted_file_names,
                                      modified_file_names)
        count == Len(all_rows) - Len(filtered_rows)
    IN [early |-> FALSE, wrote |-> count > 0,
        rows |-> IF count = 0 THEN all_rows ELSE filtered_rows,
        removed_count |-> count,
        removal_stats |-> RemovalStats(all_rows, deleted_file_names,
                                       modified_file_names)]

----------------------------------------------------------------------------
(* llm_handler.py / test_generator.py: the new test dicts of one run.       *)
(* A reply is the number of tests parsed from the synthesis response        *)
(* (0 = nothing parsed), or LLMError when _make_request returned an         *)
(* "Error:" string.                                                         *)

LLMError == 0 - 1
Replies == LLMError..MaxRows

(* llm_handler.py _generate_fallback_tests *)
FallbackTests(test_type, file_name, src_names) ==
  IF test_type = "Functional Test"
    THEN <<[type |-> test_type, file |-> file_name, format |-> "professional",
            test_case_id |-> <<"TC-FN", 1>>, from |-> src_names]>>
    ELSE <<[type |-> test_type, file |-> file_name, format |-> "code",
            test_case_id |-> <<"", 0>>, from |-> src_names]>>

(* llm_handler.py _parse_test_response: functional replies that follow the  *)
(* prompt carry a test_case_id and are 'professional', the others 'code'.   *)
ParsedTest(test_type, k) ==
  IF test_type = "Functional Test"
    THEN [type |-> test_type, format |-> "professional",
          test_case_id |-> <<"TC-XXX", k>>]
    ELSE [type |-> test_type, format |-> "code", test_case_id |-> <<"", 0>>]

(* llm_handler.py generate_tests_for_chunk: file_name is stamped on every   *)
(* test of the chunk; src_names records which parsed files the chunk held.  *)
generate_tests_for_chunk(reply, test_type, file_name, src_names) ==
  IF reply = LLMError
    THEN FallbackTests(test_type, file_name, src_names)
    ELSE [k \in 1..reply |->
            [type |-> test_type, file |-> file_name,
             format |-> ParsedTest(test_type, k).format,
             test_case_id |-> ParsedTest(test_type, k).test_case_id,
             from |-> src_names]]

(* test_generator.py _generate_unit_tests_chunked: one chunk per parsed     *)
(* file, the tests carry the file's name.                                   *)
UnitTests(parsed_names, unit_reply) ==
  Flatten([i \in 1..Len(parsed_names) |->
    generate_tests_for_chunk(unit_reply[i], "Unit Test",
                             <<parsed_names[i]>>, {parsed_names[i]})])

(* test_generator.py _generate_functional_tests_chunked with                *)
(* module_level=True: the files are combined and the chunk's tests carry    *)
(* the file name "module".                                                  *)
ModuleFileName == <<"module">>

FunctionalTests(parsed_names, func_reply) ==
  generate_tests_for_chunk(func_reply, "Functional Test", ModuleFileName,
                           Range(parsed_names))

(* test_generator.py generate_tests: the dict is filled in the order        *)
(* 'Unit Test', 'Regression Test', 'Functional Test'.                       *)
generate_tests(parsed_names, test_types, unit_reply, func_reply) ==
  (IF "Unit Test" \in test_types
     THEN UnitTests(parsed_names, unit_reply) ELSE <<>>)
  \o
  (IF "Functional Test" \in test_types
     THEN FunctionalTests(parsed_names, func_reply) ELSE <<>>)

----------------------------------------------------------------------------
(* csv_handler.py: writing suite rows *)

HasProfessional(test_cases) ==
  \E i \in 1..Len(test_cases) : test_cases[i].format = "professional"

TypePrefix(test_type) ==
  IF test_type = "Unit Test" THEN "TC-UNI" ELSE "TC-FUN"

CountOfType(rows_or_tests, test_type, upto) ==
  Cardinality({i \in 1..upto : rows_or_tests[i].type = test_type})

(* lines 252-257 / 175-180: the change type of a new row *)
ChangeTypeOf(test, ci) ==
  IF test.file \in ci.modified_files THEN "Modified File" ELSE "New"

(* _generate_standard_csv, lines 396-417 *)
GenerateStandardRows(test_cases, with_change, ts) ==
  [i \in 1..Len(test_cases) |->
     [id |-> <<"TC", i>>, type |-> test_cases[i].type,
      src |-> test_cases[i].file, created |-> ts,
      change |-> IF with_change THEN "New" ELSE "absent",
      from |-> test_cases[i].from]]

(* _generate_professional_csv, lines 330-365 *)
GenerateProfessionalRows(test_cases, with_change, ts) ==
  [i \in 1..Len(test_cases) |->
     [id |-> IF test_cases[i].format = "professional"
               THEN test_cases[i].test_case_id
               ELSE <<TypePrefix(test_cases[i].type),
                      1 + CountOfType(test_cases, test_cases[i].type,
                                      i - 1)>>,
      type |-> test_cases[i].type,
      src |-> test_cases[i].file, created |-> ts,
      change |-> IF with_change THEN "New" ELSE "absent",
      from |-> test_cases[i].from]]

(* Previous rows re-written last row first *)
ExistingRows_Reversed(previous_tests) ==
  [i \in 1..Len(previous_tests) |->
     [previous_tests[Len(previous_tests) + 1 - i]
        EXCEPT !.change = "Existing"]]

(* lines 243-245 / 164-166: previous rows are re-written, marked Existing *)
ExistingRows(previous_tests) ==
  [i \in 1..Len(previous_tests) |->
     [previous_tests[i] EXCEPT !.change = "Existing"]]

(* _append_standard_csv, lines 238-274 *)
AppendStandardRows(previous_tests, new_test_cases, ci, ts) ==
  ExistingRows(previous_tests) \o
  [i \in 1..Len(new_test_cases) |->
     [id |-> <<"TC", Len(previous_tests) + i>>,
      type |-> new_test_cases[i].type,
      src |-> new_test_cases[i].file, created |-> ts,
      change |-> ChangeTypeOf(new_test_cases[i], ci),
      from |-> new_test_cases[i].from]]

(* _append_professional_csv, lines 159-212 *)
AppendProfessionalRows(previous_tests, new_test_cases, ci, ts) ==
  ExistingRows(previous_tests) \o
  [i \in 1..Len(new_test_cases) |->
     [id |-> IF new_test_cases[i].format = "professional"
               THEN new_test_cases[i].test_case_id
               ELSE <<TypePrefix(new_test_cases[i].type),
                      CountOfType(previous_tests, new_test_cases[i].type,
                                  Len(previous_tests)) + 1
                      + CountOfType(new_test_cases, new_test_cases[i].type,
                                    i - 1)>>,
      type |-> new_test_cases[i].type,
      src |-> new_test_cases[i].file, created |-> ts,
      change |-> ChangeTypeOf(new_test_cases[i], ci),
      from |-> new_test_cases[i].from]]

(* A file on the modelled disk.  named: the file name carries the           *)
(* sanitized repository name; fmt: the header row ('Test Case ID' or        *)
(* 'Test ID').                                                              *)
NewFile(dir, named, fmt, rows) ==
  [dir |-> dir, named |-> named, exists |-> TRUE, readable |-> TRUE,
   fmt |-> fmt, rows |-> rows]

(* generate_csv_with_repo_name, lines 31-44: test_cases_<repo>_<ts>.csv *)
generate_csv_with_repo_name(test_cases, ts) ==
  IF HasProfessional(test_cases)
    THEN NewFile("test_outputs", TRUE, "professional",
                 GenerateProfessionalRows(test_cases, TRUE, ts))
    ELSE NewFile("test_outputs", TRUE, "standard",
                 GenerateStandardRows(test_cases, TRUE, ts))

(* generate_csv, lines 289-301: test_cases_<ts>.csv, no Change Type *)
generate_csv(test_cases, ts) ==
  IF HasProfessional(test_cases)
    THEN NewFile("test_outputs", FALSE, "professional",
                 GenerateProfessionalRows(test_cases, FALSE, ts))
    ELSE NewFile("test_outputs", FALSE, "standard",
                 GenerateStandardRows(test_cases, FALSE, ts))

(* An append that writes the new tests only *)
append_to_previous_csv_NewOnly(previous, new_test_cases, ci, ts) ==
  IF HasProfessional(new_test_cases)
    THEN NewFile("test_outputs", previous.named, "professional",
                 GenerateProfessionalRows(new_test_cases, TRUE, ts))
    ELSE NewFile("test_outputs", previous.named, "standard",
                 GenerateStandardRows(new_test_cases, TRUE, ts))

(* append_to_previous_csv, lines 63-95: the new file is named after the     *)
(* stem of the file it is given; an unreadable file falls back to           *)
(* generate_csv; the format follows the first previous row.                 *)
append_to_previous_csv(previous, new_test_cases, ci, ts) ==
  IF ~previous.readable
    THEN generate_csv(new_test_cases, ts)
  ELSE IF previous.rows # <<>> /\ previous.fmt = "professional"
    THEN NewFile("test_outputs", previous.named, "professional",
                 AppendProfessionalRows(previous.rows, new_test_cases,
                                        ci, ts))
    ELSE NewFile("test_outputs", previous.named, "standard",
                 AppendStandardRows(previous.rows, new_test_cases, ci, ts))

----------------------------------------------------------------------------
(* The change descriptor.  GitHandler.clone_or_pull_repository is called    *)
(* by display_chat (app.py:705) but is not part of the sources; its         *)
(* results follow the synchronizer of the specification (section 4.4) and   *)
(* the shape display_chat reads: has_changes, is_new_repo, changed_files    *)
(* (entries with a status and a file) and modified_files.                   *)

NoStatus == "-"

(* The old path of a rename: it leaves the working copy and is reported     *)
(* only inside the entry of the new path.                                   *)
RenamedFrom == "R-from"

(* A name-status diff against the working copy: added paths and the new     *)
(* path of a rename are new, modified and deleted paths and the old path    *)
(* of a rename are tracked; at most one rename.                             *)
Diffs(universe, tr) ==
  {st \in [universe -> {NoStatus, "A", "M", "D", "R", RenamedFrom}] :
     /\ \A p \in universe :
          /\ st[p] \in {"A", "R"} => p \notin tr
          /\ st[p] \in {"M", "D", RenamedFrom} => p \in tr
     /\ Cardinality({p \in universe : st[p] = "R"}) <= 1
     /\ Cardinality({p \in universe : st[p] = "R"})
          = Cardinality({p \in universe : st[p] = RenamedFrom})}

EmptyDiff(universe) == [p \in universe |-> NoStatus]

(* The old path of the rename whose new path is p (the empty path when p   *)
(* is not renamed)                                                          *)
OldPathOf(st, p) ==
  IF st[p] = "R" THEN CHOOSE q \in DOMAIN st : st[q] = RenamedFrom
  ELSE <<>>

(* changed_files: one entry per reported path, a rename under its new       *)
(* path; display_chat reads 'status' and 'file' only.                       *)
ChangedFiles(st) ==
  LET touched == InPathOrder({p \in DOMAIN st :
                               st[p] \notin {NoStatus, RenamedFrom}})
  IN [i \in 1..Len(touched) |-> [status |-> st[touched[i]],
                                 file |-> touched[i],
                                 old_file |-> OldPathOf(st, touched[i])]]

TrackedAfter(tr, st) ==
  (tr \cup {p \in DOMAIN st : st[p] \in {"A", "R"}})
  \ {p \in DOMAIN st : st[p] \in {"D", RenamedFrom}}

(* previous_commit / current_commit: 0 stands for an absent commit *)
NewCloneInfo(current) ==
  [has_changes |-> FALSE, is_new_repo |-> TRUE, changed_files |-> <<>>,
   modified_files |-> {}, previous_commit |-> 0, current_commit |-> current]

NoChangesInfo(head) ==
  [has_changes |-> FALSE, is_new_repo |-> FALSE, changed_files |-> <<>>,
   modified_files |-> {}, previous_commit |-> head, current_commit |-> head]

UpdatedInfo(st, previous, current) ==
  [has_changes |-> TRUE, is_new_repo |-> FALSE,
   changed_files |-> ChangedFiles(st),
   modified_files |-> {p \in DOMAIN st : st[p] \in {"M", "R"}},
   previous_commit |-> previous, current_commit |-> current]

(* GitHandler.get_previous_test_file is called by display_chat              *)
(* (app.py:715, 871, 875) but is not part of the sources: the latest file   *)
(* of test_outputs/ whose name carries the sanitized repository name        *)
(* (specification, sections 3 and 6), 0 when there is none.                 *)
SuiteFilesOf(d) ==
  {i \in 1..Len(d) : d[i].exists /\ d[i].dir = "test_outputs" /\ d[i].named}

get_previous_test_file(d) ==
  IF SuiteFilesOf(d) = {} THEN 0
  ELSE CHOOSE i \in SuiteFilesOf(d) : \A j \in SuiteFilesOf(d) : j <= i

(* GitHandler.get_changed_code_files is called by display_chat (app.py:788) *)
(* but is not part of the sources: the listed files that are present in     *)
(* the working copy, in the order given.                                    *)
get_changed_code_files(tr, files_to_process) ==
  SelectSeq(files_to_process, LAMBDA p : p \in tr)

(* git_handler.py get_code_files: os.walk lists the files of a directory    *)
(* before it descends; every path of Paths is a code file below the size    *)
(* limit and the default max_files (100) is not reached.                    *)
get_code_files(tr) == InPathOrder(tr)

----------------------------------------------------------------------------
(* app.py display_chat, lines 745-773: classification of changed_files *)

ClassOfStatus(status) ==
  IF status = "A" THEN "added"
  ELSE IF status = "D" THEN "deleted"
  ELSE IF status \in {"M", "R"} THEN "modified"
  ELSE "none"

(* A classification whose modified list takes every entry *)
RECURSIVE FilesOfClass_ModifiedTakesAll(_, _)
FilesOfClass_ModifiedTakesAll(changed_files, class) ==
  IF changed_files = <<>> THEN <<>>
  ELSE (IF class = "modified"
           \/ ClassOfStatus(Head(changed_files).status) = class
          THEN <<Head(changed_files).file>> ELSE <<>>)
       \o FilesOfClass_ModifiedTakesAll(Tail(changed_files), class)

RECURSIVE FilesOfClass(_, _)
FilesOfClass(changed_files, class) ==
  IF changed_files = <<>> THEN <<>>
  ELSE (IF ClassOfStatus(Head(changed_files).status) = class
          THEN <<Head(changed_files).file>> ELSE <<>>)
       \o FilesOfClass(Tail(changed_files), class)

(* lines 806-813: parsed[fp.name] = ...; the keys of the dict in insertion  *)
(* order (a second file with the same name overwrites the first entry).     *)
RECURSIVE DictKeys(_)
DictKeys(names) ==
  IF names = <<>> THEN <<>>
  ELSE LET rest == DictKeys(SelectSeq(Tail(names),
                                      LAMBDA n : n # Head(names)))
       IN <<Head(names)>> \o rest

ParsedKeys(files, ok) ==
  DictKeys([i \in 1..Len(SelectSeq(files, LAMBDA p : p \in ok)) |->
              PathName(SelectSeq(files, LAMBDA p : p \in ok)[i])])

(* lines 867-877: the previous suite of the repository *)
LookupPrevCsv(d, session_csv) ==
  IF session_csv # 0
    THEN IF d[session_csv].exists THEN session_csv
         ELSE get_previous_test_file(d)
    ELSE get_previous_test_file(d)

----------------------------------------------------------------------------
(* The session *)

(* What the steps of a run leave alone *)
ReqVars == <<req_pc, chunk, attempt, retry_delay, sleeps, attempt_log,
             response, all_unit_tests>>

(* The locals of the GitHandler calls that are followed on their own *)
ScanVars == <<scan_tree, max_files, scan_pc, scan_dir, scan_idx, scan_files,
              examined>>

CloneVars == <<workdirs, clone_pc, clone_req, clone_branch, clone_result>>

DiffVars == <<old_parsed, new_parsed, function_changes>>

ToolVars == <<ScanVars, CloneVars, DiffVars>>

RunFrame == <<now, start_suite, ReqVars, ToolVars>>

StepFrame == <<RunFrame, upstream_commit, last_commit, fallback_logged>>

NoRequest == [url |-> <<>>, branch |-> "", depth |-> 0, before |-> {}]

(* No previous version of the file: no functions *)
NoVersion == <<[name |-> "", body |-> "no version"]>>

NoFunctionChanges == [added |-> {}, removed |-> {}, modified |-> {}]

ScanIdle ==
  /\ scan_tree = <<>>
  /\ max_files = 0
  /\ scan_pc = "idle"
  /\ scan_dir = 0
  /\ scan_idx = 0
  /\ scan_files = <<>>
  /\ examined = <<>>

CloneIdle ==
  /\ workdirs = {}
  /\ clone_pc = "idle"
  /\ clone_req = NoRequest
  /\ clone_branch = ""
  /\ clone_result = "none"

DiffIdle ==
  /\ old_parsed = NoVersion
  /\ new_parsed = NoVersion
  /\ function_changes = NoFunctionChanges

(* No GitHandler call is followed *)
ToolsIdle == ScanIdle /\ CloneIdle /\ DiffIdle

(* The synthesis batch is not running *)
RequestIdle ==
  /\ req_pc = "idle"
  /\ chunk = 0
  /\ attempt = 0
  /\ retry_delay = 0
  /\ sleeps = <<>>
  /\ attempt_log = <<>>
  /\ response = "none"
  /\ all_unit_tests = <<>>

NoInfo == [has_changes |-> FALSE, is_new_repo |-> FALSE,
           changed_files |-> <<>>, modified_files |-> {},
           previous_commit |-> 0, current_commit |-> 0]

RunVarsReset ==
  /\ change_info' = NoInfo
  /\ added_files' = <<>>
  /\ modified_files' = <<>>
  /\ deleted_files' = <<>>
  /\ code_files' = <<>>
  /\ parsed' = <<>>
  /\ tests' = <<>>
  /\ has_tests' = FALSE
  /\ prev_csv' = 0
  /\ prev_readable' = TRUE
  /\ cleaned_csv' = 0
  /\ removed_count' = 0
  /\ removal_stats' = EmptyStats
  /\ csv_file' = 0
  /\ scanned' = FALSE
  /\ llm_calls' = 0
  /\ result' = "running"

Init ==
  /\ pc = "idle"
  /\ now = 0
  /\ cloned = FALSE
  /\ tracked = {}
  /\ disk = <<>>
  /\ current_repo_csv = 0
  /\ change_info = NoInfo
  /\ added_files = <<>>
  /\ modified_files = <<>>
  /\ deleted_files = <<>>
  /\ code_files = <<>>
  /\ parsed = <<>>
  /\ tests = <<>>
  /\ has_tests = FALSE
  /\ prev_csv = 0
  /\ prev_readable = TRUE
  /\ cleaned_csv = 0
  /\ removed_count = 0
  /\ removal_stats = EmptyStats
  /\ csv_file = 0
  /\ scanned = FALSE
  /\ llm_calls = 0
  /\ result = "none"
  /\ start_suite = <<>>
  /\ upstream_commit = 1
  /\ last_commit = 0
  /\ fallback_logged = FALSE
  /\ RequestIdle
  /\ ToolsIdle

RowsOf(d, i) == IF i = 0 THEN <<>> ELSE d[i].rows

(* app.py:573-598: a message with a repository URL clears the session       *)
(* context (clear_session_context, lines 288-310) and asks for the branch.  *)
GitUrlDetected ==
  /\ pc = "idle"
  /\ now < MaxCycles
  /\ now' = now + 1
  /\ current_repo_csv' = 0
  /\ pc' = "ask_branch"
  /\ start_suite' = RowsOf(disk, get_previous_test_file(disk))
  /\ RunVarsReset
  /\ fallback_logged' = FALSE
  /\ UNCHANGED <<cloned, tracked, disk, upstream_commit, last_commit,
                 ReqVars, ToolVars>>

(* app.py:669-710, the branch message starts the processing.  No working    *)
(* copy yet: a full clone (transition 1).                                   *)
FirstClone ==
  /\ pc = "ask_branch"
  /\ ~cloned
  /\ \E tr \in SUBSET Paths :
       /\ tracked' = tr
       /\ cloned' = TRUE
  /\ change_info' = NewCloneInfo(upstream_commit)
  /\ last_commit' = upstream_commit
  /\ pc' = "synced"
  /\ UNCHANGED <<RunFrame, upstream_commit, fallback_logged, prev_readable,
                 disk, current_repo_csv, added_files, modified_files,
                 deleted_files, code_files, parsed, tests, has_tests,
                 prev_csv, cleaned_csv, removed_count, removal_stats,
                 csv_file, scanned, llm_calls, result>>

(* A pull that writes nothing to the state store *)
PullNoChanges_ForgetsCommit ==
  /\ pc = "ask_branch"
  /\ cloned
  /\ change_info' = NoChangesInfo(upstream_commit)
  /\ last_commit' = 0
  /\ pc' = "synced"
  /\ UNCHANGED <<RunFrame, upstream_commit, fallback_logged, prev_readable,
                 cloned, tracked, disk, current_repo_csv, added_files,
                 modified_files, deleted_files, code_files, parsed, tests,
                 has_tests, prev_csv, cleaned_csv, removed_count,
                 removal_stats, csv_file, scanned, llm_calls, result>>

(* transition 2, no upstream commit since the last synchronisation: HEAD    *)
(* is unchanged by the pull; the commit is stored again.                    *)
PullNoChanges ==
  /\ pc = "ask_branch"
  /\ cloned
  /\ change_info' = NoChangesInfo(upstream_commit)
  /\ last_commit' = upstream_commit
  /\ pc' = "synced"
  /\ UNCHANGED <<RunFrame, upstream_commit, fallback_logged, prev_readable,
                 cloned, tracked, disk, current_repo_csv, added_files,
                 modified_files, deleted_files, code_files, parsed, tests,
                 has_tests, prev_csv, cleaned_csv, removed_count,
                 removal_stats, csv_file, scanned, llm_calls, result>>

(* transition 2, upstream has a new commit and the pull brings it *)
PullWithChanges ==
  /\ pc = "ask_branch"
  /\ cloned
  /\ upstream_commit' = upstream_commit + 1
  /\ \E st \in Diffs(Paths, tracked) :
       /\ change_info' = UpdatedInfo(st, upstream_commit, upstream_commit + 1)
       /\ tracked' = TrackedAfter(tracked, st)
  /\ last_commit' = upstream_commit + 1
  /\ pc' = "synced"
  /\ UNCHANGED <<RunFrame, fallback_logged, prev_readable, cloned, disk,
                 current_repo_csv, added_files, modified_files,
                 deleted_files, code_files, parsed, tests, has_tests,
                 prev_csv, cleaned_csv, removed_count, removal_stats,
                 csv_file, scanned, llm_calls, result>>

(* A fall back that leaves no trace in the log *)
PullFailsFreshClone_Silent ==
  /\ pc = "ask_branch"
  /\ cloned
  /\ \E commits \in {0, 1} :
     \E st \in Diffs(Paths, tracked) :
       /\ commits = 0 => st = EmptyDiff(Paths)
       /\ upstream_commit' = upstream_commit + commits
       /\ tracked' = TrackedAfter(tracked, st)
       /\ change_info' = NewCloneInfo(upstream_commit + commits)
       /\ last_commit' = upstream_commit + commits
  /\ fallback_logged' = FALSE
  /\ pc' = "synced"
  /\ UNCHANGED <<RunFrame, prev_readable, cloned, disk, current_repo_csv,
                 added_files, modified_files, deleted_files, code_files,
                 parsed, tests, has_tests, prev_csv, cleaned_csv,
                 removed_count, removal_stats, csv_file, scanned, llm_calls,
                 result>>

(* transition 3, the pull fails: the local copy is removed and replaced by  *)
(* a fresh clone of whatever upstream holds now (with or without a new      *)
(* commit); the fall back is logged.                                        *)
PullFailsFreshClone ==
  /\ pc = "ask_branch"
  /\ cloned
  /\ \E commits \in {0, 1} :
     \E st \in Diffs(Paths, tracked) :
       /\ commits = 0 => st = EmptyDiff(Paths)
       /\ upstream_commit' = upstream_commit + commits
       /\ tracked' = TrackedAfter(tracked, st)
       /\ change_info' = NewCloneInfo(upstream_commit + commits)
       /\ last_commit' = upstream_commit + commits
  /\ fallback_logged' = TRUE
  /\ pc' = "synced"
  /\ UNCHANGED <<RunFrame, prev_readable, cloned, disk, current_repo_csv,
                 added_files, modified_files, deleted_files, code_files,
                 parsed, tests, has_tests, prev_csv, cleaned_csv,
                 removed_count, removal_stats, csv_file, scanned, llm_calls,
                 result>>

(* app.py:712-742: no changes and a previous suite is found *)
NoChangesReturn ==
  /\ pc = "synced"
  /\ ~change_info.has_changes /\ ~change_info.is_new_repo
  /\ get_previous_test_file(disk) # 0
  /\ prev_csv' = get_previous_test_file(disk)
  /\ prev_readable' = disk[get_previous_test_file(disk)].readable
  /\ result' = "no_changes"
  /\ pc' = "idle"
  /\ UNCHANGED <<StepFrame, cloned, tracked, disk, current_repo_csv,
                 change_info, added_files, modified_files, deleted_files,
                 code_files, parsed, tests, has_tests, cleaned_csv,
                 removed_count, removal_stats, csv_file, scanned, llm_calls>>

(* app.py:744-802: classification and the list of files to parse; also      *)
(* reached when the no-changes branch finds no previous suite (the `if      *)
(* prev_csv:` of line 716 has no else).                                     *)
DetectChanges ==
  /\ pc = "synced"
  /\ ~(/\ ~change_info.has_changes /\ ~change_info.is_new_repo
       /\ get_previous_test_file(disk) # 0)
  /\ LET cf == change_info.changed_files
         added == FilesOfClass(cf, "added")
         modified == FilesOfClass(cf, "modified")
         deleted == FilesOfClass(cf, "deleted")
         files_to_process == added \o modified
     IN /\ added_files' = (IF change_info.has_changes THEN added ELSE <<>>)
        /\ modified_files' =
             (IF change_info.has_changes THEN modified ELSE <<>>)
        /\ deleted_files' =
             (IF change_info.has_changes THEN deleted ELSE <<>>)
        /\ code_files' =
             (IF change_info.has_changes
                THEN IF files_to_process # <<>>
                       THEN get_changed_code_files(tracked, files_to_process)
                       ELSE <<>>
                ELSE get_code_files(tracked))
        /\ scanned' = (~change_info.has_changes \/ files_to_process # <<>>)
  /\ pc' = "parse"
  /\ UNCHANGED <<StepFrame, prev_readable, cloned, tracked, disk,
                 current_repo_csv, change_info, parsed, tests, has_tests,
                 prev_csv, cleaned_csv, removed_count, removal_stats,
                 csv_file, llm_calls, result>>

(* app.py:804-817: each file is read and parsed; a failure is logged and    *)
(* the file is left out of the parsed dict.                                 *)
ParseCode ==
  /\ pc = "parse"
  /\ \E ok \in SUBSET Range(code_files) :
       parsed' = ParsedKeys(code_files, ok)
  /\ pc' = "generate"
  /\ UNCHANGED <<StepFrame, prev_readable, cloned, tracked, disk,
                 current_repo_csv, change_info, added_files, modified_files,
                 deleted_files, code_files, tests, has_tests, prev_csv,
                 cleaned_csv, removed_count, removal_stats, csv_file, scanned,
                 llm_calls, result>>

(* app.py:844-852: generate_tests on the parsed files *)
GenerateTests ==
  /\ pc = "generate"
  /\ parsed # <<>>
  /\ \E test_types \in TestTypeChoices :
     \E unit_reply \in [1..Len(parsed) -> Replies] :
     \E func_reply \in Replies :
       /\ tests' = generate_tests(parsed, test_types, unit_reply, func_reply)
       /\ llm_calls' =
            (IF "Unit Test" \in test_types THEN Len(parsed) ELSE 0)
            + (IF "Functional Test" \in test_types THEN 1 ELSE 0)
  /\ has_tests' = TRUE
  /\ pc' = "csv"
  /\ UNCHANGED <<StepFrame, prev_readable, cloned, tracked, disk,
                 current_repo_csv, change_info, added_files, modified_files,
                 deleted_files, code_files, parsed, prev_csv, cleaned_csv,
                 removed_count, removal_stats, csv_file, scanned, result>>

(* app.py:858-862: nothing parsed *)
NothingParsed ==
  /\ pc = "generate"
  /\ parsed = <<>>
  /\ IF ~change_info.has_changes \/ deleted_files = <<>>
       THEN /\ result' = "no_code_files"
            /\ pc' = "idle"
       ELSE /\ result' = result
            /\ pc' = "csv"
  /\ UNCHANGED <<StepFrame, prev_readable, cloned, tracked, disk,
                 current_repo_csv, change_info, added_files, modified_files,
                 deleted_files, code_files, parsed, tests, has_tests,
                 prev_csv, cleaned_csv, removed_count, removal_stats,
                 csv_file, scanned, llm_calls>>

(* app.py:879-893: a previous suite and has_changes -- the removal step.    *)
(* remove_test_cases_from_csv opens the file (line 152) unless it returns   *)
(* early; a temp file is written when rows were removed.                    *)
RemoveStep ==
  /\ pc = "csv"
  /\ LET prev == LookupPrevCsv(disk, current_repo_csv) IN
     /\ prev # 0 /\ change_info.has_changes
     /\ LET r == remove_test_cases_from_csv(disk[prev].rows, deleted_files,
                                            modified_files)
        IN /\ r.early \/ disk[prev].readable
           /\ prev_csv' = prev
           /\ prev_readable' = disk[prev].readable
           /\ removed_count' = r.removed_count
           /\ removal_stats' = r.removal_stats
           /\ IF r.wrote
                THEN /\ disk' = Append(disk, NewFile("tmp", FALSE,
                                                     disk[prev].fmt, r.rows))
                     /\ cleaned_csv' = Len(disk) + 1
                ELSE /\ disk' = disk
                     /\ cleaned_csv' = prev
  /\ pc' = "append"
  /\ UNCHANGED <<StepFrame, cloned, tracked, current_repo_csv, change_info,
                 added_files, modified_files, deleted_files, code_files,
                 parsed, tests, has_tests, csv_file, scanned, llm_calls,
                 result>>

(* app.py:152 raises on a file that cannot be read or decoded; the          *)
(* exception ends the run in the handler of lines 1023-1030.                *)
RemoveFails ==
  /\ pc = "csv"
  /\ LET prev == LookupPrevCsv(disk, current_repo_csv) IN
     /\ prev # 0 /\ change_info.has_changes
     /\ ~remove_test_cases_from_csv(disk[prev].rows, deleted_files,
                                    modified_files).early
     /\ ~disk[prev].readable
     /\ prev_csv' = prev
     /\ prev_readable' = FALSE
  /\ result' = "failed"
  /\ pc' = "idle"
  /\ UNCHANGED <<StepFrame, cloned, tracked, disk, current_repo_csv,
                 change_info, added_files, modified_files, deleted_files,
                 code_files, parsed, tests, has_tests, cleaned_csv,
                 removed_count, removal_stats, csv_file, scanned, llm_calls>>

(* An append that rewrites the previous suite file instead of writing a     *)
(* new one                                                                  *)
AppendStep_InPlace ==
  /\ pc = "append"
  /\ IF has_tests
       THEN LET new_file == append_to_previous_csv(disk[cleaned_csv], tests,
                                                   change_info, now)
            IN /\ csv_file' = prev_csv
               /\ current_repo_csv' = prev_csv
               /\ disk' = [disk EXCEPT ![prev_csv] = new_file]
               /\ result' = "reconciled"
       ELSE /\ csv_file' = cleaned_csv
            /\ current_repo_csv' = cleaned_csv
            /\ disk' = disk
            /\ result' = "cleaned"
  /\ pc' = "idle"
  /\ UNCHANGED <<StepFrame, prev_readable, cloned, tracked, change_info,
                 added_files, modified_files, deleted_files, code_files,
                 parsed, tests, has_tests, prev_csv, cleaned_csv,
                 removed_count, removal_stats, scanned, llm_calls>>

(* app.py:895-945: append the new tests to the cleaned file, or keep the    *)
(* cleaned file when there are no tests; then drop the temp file unless it  *)
(* is the result.                                                           *)
AppendStep ==
  /\ pc = "append"
  /\ IF has_tests
       THEN LET new_file == append_to_previous_csv(disk[cleaned_csv], tests,
                                                   change_info, now)
                written == Append(disk, new_file)
            IN /\ csv_file' = Len(disk) + 1
               /\ current_repo_csv' = Len(disk) + 1
               /\ disk' =
                    IF cleaned_csv # prev_csv
                      THEN [written EXCEPT ![cleaned_csv].exists = FALSE,
                                           ![cleaned_csv].rows = <<>>]
                      ELSE written
               /\ result' = "reconciled"
       ELSE /\ csv_file' = cleaned_csv
            /\ current_repo_csv' = cleaned_csv
            /\ disk' = disk
            /\ result' = "cleaned"
  /\ pc' = "idle"
  /\ UNCHANGED <<StepFrame, prev_readable, cloned, tracked, change_info,
                 added_files, modified_files, deleted_files, code_files,
                 parsed, tests, has_tests, prev_csv, cleaned_csv,
                 removed_count, removal_stats, scanned, llm_calls>>

(* app.py:946-973: no previous suite, or has_changes is false *)
FirstTimeCsv ==
  /\ pc = "csv"
  /\ LET prev == LookupPrevCsv(disk, current_repo_csv) IN
     /\ ~(prev # 0 /\ change_info.has_changes)
     /\ prev_csv' = prev
     /\ prev_readable' = (prev = 0 \/ disk[prev].readable)
  /\ IF has_tests
       THEN /\ disk' = Append(disk, generate_csv_with_repo_name(tests, now))
            /\ csv_file' = Len(disk) + 1
            /\ current_repo_csv' = Len(disk) + 1
            /\ result' = "generated"
       ELSE /\ disk' = disk
            /\ csv_file' = csv_file
            /\ current_repo_csv' = current_repo_csv
            /\ result' = "no_tests"
  /\ pc' = "idle"
  /\ UNCHANGED <<StepFrame, cloned, tracked, change_info, added_files,
                 modified_files, deleted_files, code_files, parsed, tests,
                 has_tests, cleaned_csv, removed_count, removal_stats,
                 scanned, llm_calls>>

(* Between two runs the suite file of the repository may become unreadable  *)
(* (damaged or replaced by bytes that are not UTF-8).                       *)
SuiteFileDamaged ==
  /\ pc = "idle"
  /\ now < MaxCycles
  /\ get_previous_test_file(disk) # 0
  /\ disk[get_previous_test_file(disk)].readable
  /\ disk' = [disk EXCEPT ![get_previous_test_file(disk)].readable = FALSE]
  /\ UNCHANGED <<ReqVars, ToolVars, upstream_commit, last_commit,
                 fallback_logged, pc, now, prev_readable, cloned, tracked,
                 current_repo_csv, change_info, added_files, modified_files,
                 deleted_files, code_files, parsed, tests, has_tests, prev_csv,
                 cleaned_csv, removed_count, removal_stats, csv_file, scanned,
                 llm_calls, result, start_suite>>

Next ==
  \/ GitUrlDetected
  \/ FirstClone
  \/ PullNoChanges
  \/ PullWithChanges
  \/ PullFailsFreshClone
  \/ NoChangesReturn
  \/ DetectChanges
  \/ ParseCode
  \/ GenerateTests
  \/ NothingParsed
  \/ RemoveStep
  \/ RemoveFails
  \/ AppendStep
  \/ FirstTimeCsv
  \/ SuiteFileDamaged

Spec == Init /\ [][Next]_vars

----------------------------------------------------------------------------
(* Reconciliation runs: the session right before the CSV handling of a      *)
(* second synchronisation (app.py:864).  The first synchronisation cloned   *)
(* a repository holding tr0, parsed every file and generated the suite      *)
(* with replies of r0 tests; the second one pulled the diff st, parsed the  *)
(* files ok of the changed ones and generated the new tests.                *)

FirstSuite(tr0, tt0, r0) ==
  LET parsed0 == ParsedKeys(get_code_files(tr0), tr0)
  IN generate_csv_with_repo_name(
       generate_tests(parsed0, tt0, [i \in 1..Len(parsed0) |-> r0], r0), 1)

InitReconcile ==
  \E tr0 \in (SUBSET ReconcilePaths) \ {{}} :
  \E tt0 \in TestTypeChoices, r0 \in 1..MaxRows :
  \E st \in Diffs(ReconcilePaths, tr0) :
  LET ci == UpdatedInfo(st, 1, 2)
      added == FilesOfClass(ci.changed_files, "added")
      modified == FilesOfClass(ci.changed_files, "modified")
      deleted == FilesOfClass(ci.changed_files, "deleted")
      files == IF added \o modified # <<>>
                 THEN get_changed_code_files(TrackedAfter(tr0, st),
                                             added \o modified)
                 ELSE <<>>
  IN
  \E ok \in SUBSET Range(files) :
  \E tt1 \in TestTypeChoices :
  \E unit_reply \in [1..Len(ParsedKeys(files, ok)) -> Replies] :
  \E func_reply \in Replies :
    /\ ParsedKeys(files, ok) # <<>> \/ deleted # <<>>
    /\ pc = "csv"
    /\ now = 2
    /\ cloned = TRUE
    /\ tracked = TrackedAfter(tr0, st)
    /\ disk = <<FirstSuite(tr0, tt0, r0)>>
    /\ current_repo_csv = 0
    /\ change_info = ci
    /\ added_files = added
    /\ modified_files = modified
    /\ deleted_files = deleted
    /\ code_files = files
    /\ parsed = ParsedKeys(files, ok)
    /\ tests = (IF ParsedKeys(files, ok) # <<>>
                  THEN generate_tests(ParsedKeys(files, ok), tt1, unit_reply,
                                      func_reply)
                  ELSE <<>>)
    /\ has_tests = (ParsedKeys(files, ok) # <<>>)
    /\ prev_csv = 0
    /\ prev_readable = TRUE
    /\ cleaned_csv = 0
    /\ removed_count = 0
    /\ removal_stats = EmptyStats
    /\ csv_file = 0
    /\ scanned = (added \o modified # <<>>)
    /\ llm_calls =
         (IF ParsedKeys(files, ok) = <<>> THEN 0
          ELSE (IF "Unit Test" \in tt1 THEN Len(ParsedKeys(files, ok)) ELSE 0)
               + (IF "Functional Test" \in tt1 THEN 1 ELSE 0))
    /\ result = "running"
    /\ start_suite = FirstSuite(tr0, tt0, r0).rows
    /\ upstream_commit = 2
    /\ last_commit = 2
    /\ fallback_logged = FALSE
    /\ RequestIdle
  /\ ToolsIdle

NextReconcile ==
  \/ RemoveStep
  \/ AppendStep

SpecReconcile == InitReconcile /\ [][NextReconcile]_vars

----------------------------------------------------------------------------
(* Properties of the reconciliation *)

(* The run ended with a reconciled suite: removal followed by append, or    *)
(* removal alone when there were no tests.                                  *)
Reconciled == pc = "idle" /\ result \in {"reconciled", "cleaned"}

OutRows == RowsOf(disk, csv_file)

PrevRows == RowsOf(disk, prev_csv)

RemovalNames == PathNames(deleted_files \o modified_files)

(* A row of the output that was written from the new tests of this run *)
IsNewRow(row) == row.created = now /\ row.change # "Existing"

(* C1: after removal and append, every row of the output whose source file  *)
(* is a deleted or modified file is a newly generated row; no previous row  *)
(* of such a file survives.                                                 *)
C1_RemovedFilesOnlyNewRows ==
  Reconciled =>
    /\ \A i \in 1..Len(OutRows) :
         RowFileName(OutRows[i]) \in RemovalNames => IsNewRow(OutRows[i])
    /\ \A j \in 1..Len(PrevRows) :
         RowFileName(PrevRows[j]) \in RemovalNames =>
           \A i \in 1..Len(OutRows) :
             ~(/\ OutRows[i].id = PrevRows[j].id
               /\ OutRows[i].created = PrevRows[j].created
               /\ OutRows[i].src = PrevRows[j].src)

C1_Witness ==
  /\ pc = "idle" /\ result = "reconciled"
  /\ \E j \in 1..Len(PrevRows) :
       /\ RowFileName(PrevRows[j]) \in PathNames(modified_files)
       /\ \E i \in 1..Len(OutRows) :
            /\ RowFileName(OutRows[i]) = RowFileName(PrevRows[j])
            /\ IsNewRow(OutRows[i])
  /\ \E j \in 1..Len(PrevRows) : RowFileName(PrevRows[j]) \notin RemovalNames

(* C3, as claimed: every previous row of a file that is in none of          *)
(* deleted_files, modified_files and added_files appears in the reconciled  *)
(* suite with all its field values identical, also when a changed file      *)
(* shares its base name.                                                    *)
C3_UntouchedRowsIdentical ==
  Reconciled =>
    \A p \in tracked :
      p \notin Range(deleted_files \o modified_files \o added_files) =>
        \A j \in 1..Len(PrevRows) :
          RowFileName(PrevRows[j]) = PathName(p) =>
            \E i \in 1..Len(OutRows) : OutRows[i] = PrevRows[j]

(* The previous rows the removal passes over, in their order *)
KeptRows ==
  SelectSeq(PrevRows, LAMBDA row : RowFileName(row) \notin RemovalNames)

(* Equal in every field but Change Type, which the append rewrites *)
SameButChangeType(r1, r2) ==
  [r1 EXCEPT !.change = "Existing"] = [r2 EXCEPT !.change = "Existing"]

C6_RemovalIdempotent ==
  pc = "append" =>
    LET again == remove_test_cases_from_csv(RowsOf(disk, cleaned_csv),
                                            deleted_files, modified_files)
    IN /\ again.removed_count = 0
       /\ ~again.wrote
       /\ again.rows = RowsOf(disk, cleaned_csv)

C6_Witness ==
  /\ pc = "append"
  /\ removed_count > 1
  /\ RowsOf(disk, cleaned_csv) # <<>>

(* Number of rows whose Source File name is one of names *)
RowsNamed(rows, names) ==
  Cardinality({i \in 1..Len(rows) : RowFileName(rows[i]) \in names})

(* C7: the removal step reports the removed rows by reason -- rows of       *)
(* deleted files, rows of modified files that are not deleted -- each       *)
(* removed row under one reason, the counts summing to the removed count;   *)
(* a deleted file without replacement rows has no row in the suite.         *)
C7_RemovalCountsByReason ==
  /\ pc = "append" =>
       /\ StatGet(removal_stats, "deleted_files")
            = RowsNamed(PrevRows, PathNames(deleted_files))
       /\ StatGet(removal_stats, "modified_files")
            = RowsNamed(PrevRows, PathNames(modified_files)
                                   \ PathNames(deleted_files))
       /\ StatGet(removal_stats, "deleted_files")
            + StatGet(removal_stats, "modified_files") = removed_count
       /\ removed_count = Len(PrevRows) - Len(RowsOf(disk, cleaned_csv))
  /\ Reconciled =>
       \A p \in Range(deleted_files) :
         (\A k \in 1..Len(tests) : PathName(tests[k].file) # PathName(p))
           => RowsNamed(OutRows, {PathName(p)}) = 0

C7_Witness ==
  /\ pc = "append"
  /\ StatGet(removal_stats, "deleted_files") > 0
  /\ StatGet(removal_stats, "modified_files") > 0
  /\ PathNames(deleted_files) \cap PathNames(modified_files) = {}

----------------------------------------------------------------------------
(* Properties of the synchronisation runs *)

RunEnded == pc = "idle" /\ now > 0

(* The suite the application regards as the repository's: the lookup of    *)
(* app.py:867-877.                                                          *)
PersistedRows == RowsOf(disk, LookupPrevCsv(disk, current_repo_csv))

(* C2, as claimed: over cycles in which a file is modified and regenerated, *)
(* the suite never holds rows generated from that file in two different     *)
(* cycles.                                                                  *)
C2_NoStaleRowsOfRegeneratedFile ==
  (pc = "idle" /\ result = "reconciled") =>
    \A p \in Range(modified_files) :
      PathName(p) \in Range(parsed) =>
        \A i \in 1..Len(OutRows) :
          PathName(p) \in OutRows[i].from => OutRows[i].created = now

(* C5, as claimed: a run whose descriptor has has_changes = false leaves    *)
(* the persisted suite as it was when the run started.                      *)
C5_NoChangesSuiteUnchanged ==
  (RunEnded /\ ~change_info.has_changes) => PersistedRows = start_suite

(* C8, as claimed: whenever a reconciliation removes the previous rows of   *)
(* a modified, not deleted file, the reconciled suite holds at least one    *)
(* newly generated row of that file.                                        *)
C8_RemovedRowsAreReplaced ==
  Reconciled =>
    \A p \in Range(modified_files) :
      (/\ PathName(p) \notin PathNames(deleted_files)
       /\ \E j \in 1..Len(PrevRows) : RowFileName(PrevRows[j]) = PathName(p))
      => \E i \in 1..Len(OutRows) :
           /\ RowFileName(OutRows[i]) = PathName(p)
           /\ IsNewRow(OutRows[i])

(* C9, as claimed: when the previous suite file cannot be read in a run     *)
(* with has_changes = true, the run does not abort; it treats the previous  *)
(* suite as empty and produces a suite with the newly generated rows.       *)
C9_UnreadablePreviousTreatedAsEmpty ==
  (RunEnded /\ change_info.has_changes /\ prev_csv # 0 /\ ~prev_readable) =>
    /\ result # "failed"
    /\ has_tests =>
         /\ csv_file # 0
         /\ Len(OutRows) = Len(tests)
         /\ \A k \in 1..Len(tests) : OutRows[k].src = tests[k].file

(* C10, as claimed: a run on an already cloned repository whose commit is   *)
(* unchanged scans and parses no file and makes no synthesis call, whether  *)
(* or not a previous suite file is found.                                   *)
C10_NoChangesFastPath ==
  (pc \notin {"ask_branch"} /\ now > 0
     /\ ~change_info.has_changes /\ ~change_info.is_new_repo) =>
    /\ ~scanned
    /\ parsed = <<>>
    /\ llm_calls = 0

----------------------------------------------------------------------------
(* Properties of the synchronizer and of the change classification *)

(* The step is a synchronisation call on an existing working copy with no   *)
(* upstream commit since the previous call.                                 *)
SecondCallNoUpstreamCommit ==
  /\ pc = "ask_branch" /\ pc' = "synced"
  /\ cloned /\ last_commit # 0
  /\ upstream_commit' = upstream_commit

C12_FirstSyncAllFilesAdded ==
  (pc = "parse" /\ now = 1 /\ change_info.is_new_repo) =>
    /\ change_info.previous_commit = 0
    /\ code_files = get_code_files(tracked)
    /\ added_files = get_code_files(tracked)

C14_ClassesPairwiseDisjoint ==
  /\ Range(added_files) \cap Range(modified_files) = {}
  /\ Range(added_files) \cap Range(deleted_files) = {}
  /\ Range(modified_files) \cap Range(deleted_files) = {}

C14_Witness ==
  /\ pc = "parse"
  /\ Len(change_info.changed_files) = 2
  /\ Len(added_files) + Len(modified_files) + Len(deleted_files) = 2
  /\ Len(added_files) < 2 /\ Len(modified_files) < 2
  /\ Len(deleted_files) < 2

(* C15, as claimed: for every entry the diff reports with status Renamed,   *)
(* the new path is classified as modified and the old path as deleted.      *)
C15_RenameIsModifiedPlusDeleted ==
  (pc = "parse" /\ change_info.has_changes) =>
    \A i \in 1..Len(change_info.changed_files) :
      change_info.changed_files[i].status = "R" =>
        /\ change_info.changed_files[i].file \in Range(modified_files)
        /\ change_info.changed_files[i].old_file \in Range(deleted_files)

----------------------------------------------------------------------------
(* Properties of a batch of files and of the suite files *)

(* The messages with a count that display_chat has shown when the run has   *)
(* ended: st.warning / st.info / st.success / st.error of app.py:714,       *)
(* 776-785, 859, 888-893, 921-924, 934, 949, 973, 1024.                     *)
UserMessages ==
  (IF ~change_info.has_changes /\ ~change_info.is_new_repo
     THEN {[kind |-> "no new changes", n |-> 0]} ELSE {})
  \cup (IF deleted_files # <<>>
          THEN {[kind |-> "deleted files", n |-> Len(deleted_files)]}
          ELSE {})
  \cup (IF modified_files # <<>>
          THEN {[kind |-> "modified files", n |-> Len(modified_files)]}
          ELSE {})
  \cup (IF added_files # <<>>
          THEN {[kind |-> "new files", n |-> Len(added_files)]} ELSE {})
  \cup (IF result = "no_code_files"
          THEN {[kind |-> "no code files could be parsed", n |-> 0]}
          ELSE {})
  \cup (IF removed_count > 0
          THEN {[kind |-> "removed obsolete tests", n |-> removed_count]}
          ELSE {})
  \cup (IF StatGet(removal_stats, "deleted_files") > 0
          THEN {[kind |-> "tests for deleted files",
                 n |-> StatGet(removal_stats, "deleted_files")]}
          ELSE {})
  \cup (IF StatGet(removal_stats, "modified_files") > 0
          THEN {[kind |-> "tests for modified files",
                 n |-> StatGet(removal_stats, "modified_files")]}
          ELSE {})
  \cup (IF result = "reconciled"
          THEN {[kind |-> "generated test cases", n |-> Len(tests)]}
          ELSE {})
  \cup (IF result = "cleaned"
          THEN {[kind |-> "remaining tests", n |-> Len(RowsOf(disk, csv_file))]}
          ELSE {})
  \cup (IF result = "no_tests"
          THEN {[kind |-> "no tests generated", n |-> 0]} ELSE {})
  \cup (IF result = "generated"
          THEN {[kind |-> "generated test cases",
                 n |-> Len(RowsOf(disk, csv_file))]}
          ELSE {})
  \cup (IF result = "failed"
          THEN {[kind |-> "git processing failed", n |-> 0]} ELSE {})

(* The files of the batch that were left out of the parsed dict *)
SkippedFiles ==
  {i \in 1..Len(code_files) : PathName(code_files[i]) \notin Range(parsed)}

(* C18, as claimed: when a file of a batch fails, the rows generated for    *)
(* the other files appear in the result and the number of skipped files is  *)
(* reported to the user.                                                    *)
C18_PartialFailureIsolatedAndReported ==
  (RunEnded /\ scanned) =>
    /\ result \in {"generated", "reconciled"} =>
         \A k \in 1..Len(tests) :
           \E i \in 1..Len(RowsOf(disk, csv_file)) :
             /\ RowsOf(disk, csv_file)[i].src = tests[k].file
             /\ RowsOf(disk, csv_file)[i].created = now
    /\ (SkippedFiles # {} /\ parsed # <<>>) =>
         \E m \in UserMessages : m.n = Cardinality(SkippedFiles)
                                   /\ m.kind = "skipped files"

(* C19, as claimed: every suite file a run produces carries the sanitized   *)
(* repository name and is stored with the other suite files, and the suite  *)
(* a run produced is the one found as the repository's latest suite.        *)
C19_ResultIsNamedCurrentSuite ==
  (RunEnded /\ csv_file # 0) =>
    /\ disk[csv_file].named
    /\ disk[csv_file].dir = "test_outputs"
    /\ get_previous_test_file(disk) = csv_file

(* C20: a reconciliation leaves the previous suite file as it was -- the    *)
(* removal and the append write to other files, and the rows of the         *)
(* previous file are those of the start of the run, whether the run ends    *)
(* reconciled, cleaned or failed.                                           *)
C20_PreviousSuiteFileUntouched ==
  ((pc = "append" \/ (pc = "idle" /\ result \in {"reconciled", "cleaned",
                                                  "failed"}))
     /\ prev_csv # 0) =>
    /\ disk[prev_csv].exists
    /\ disk[prev_csv].rows = start_suite
    /\ disk[prev_csv].dir = "test_outputs"
    /\ removed_count > 0 => cleaned_csv # prev_csv
    /\ result = "reconciled" => csv_file \notin {prev_csv, cleaned_csv}

C20_Witness ==
  /\ pc = "idle" /\ result = "reconciled"
  /\ removed_count > 0
  /\ tests # <<>>
  /\ disk[prev_csv].rows # <<>>
  /\ disk[prev_csv].rows # disk[csv_file].rows

----------------------------------------------------------------------------
(* The synthesis batch: test_generator.py _generate_unit_tests_chunked      *)
(* around llm_handler.py generate_tests_for_chunk and _make_request         *)

max_retries == 3
InitialRetryDelay == 2

(* The keys of parsed_data in a batch, each file being one chunk *)
BatchFiles == <<"a.py", "u.py", "v.py", "w.py">>

(* What model.generate_content can do in one attempt: return a text,        *)
(* return an empty response, or raise; the handler looks for "quota" and    *)
(* "api key" in the text of the exception.                                  *)
RetriedOutcomes == {"empty", "network"}
FatalOutcomes == {"quota", "api key"}

SessionVars == <<pc, now, cloned, tracked, disk, current_repo_csv,
                 change_info, added_files, modified_files, deleted_files,
                 code_files, parsed, tests, has_tests, prev_csv,
                 prev_readable, cleaned_csv, removed_count, removal_stats,
                 csv_file, scanned, llm_calls, result, start_suite,
                 upstream_commit, last_commit, fallback_logged>>

Logged(outcome) ==
  [attempt_log EXCEPT ![chunk] = Append(attempt_log[chunk], outcome)]

(* test_generator.py:97: all_unit_tests = [] before the loop over the       *)
(* chunks                                                                   *)
InitRequest ==
  /\ pc = "idle"
  /\ now = 0
  /\ cloned = FALSE
  /\ tracked = {}
  /\ disk = <<>>
  /\ current_repo_csv = 0
  /\ change_info = NoInfo
  /\ added_files = <<>>
  /\ modified_files = <<>>
  /\ deleted_files = <<>>
  /\ code_files = <<>>
  /\ parsed = <<>>
  /\ tests = <<>>
  /\ has_tests = FALSE
  /\ prev_csv = 0
  /\ prev_readable = TRUE
  /\ cleaned_csv = 0
  /\ removed_count = 0
  /\ removal_stats = EmptyStats
  /\ csv_file = 0
  /\ scanned = FALSE
  /\ llm_calls = 0
  /\ result = "none"
  /\ start_suite = <<>>
  /\ upstream_commit = 1
  /\ last_commit = 0
  /\ fallback_logged = FALSE
  /\ req_pc = "batch"
  /\ chunk = 0
  /\ attempt = 0
  /\ retry_delay = 0
  /\ sleeps = <<>>
  /\ attempt_log = <<>>
  /\ response = "none"
  /\ all_unit_tests = <<>>
  /\ ToolsIdle

(* test_generator.py:111-119 and llm_handler.py:46-61: the loop takes the   *)
(* next chunk and _make_request starts with retry_delay = 2, attempt 0.     *)
NextChunk ==
  /\ req_pc = "batch"
  /\ chunk < MaxChunks
  /\ chunk' = chunk + 1
  /\ attempt' = 0
  /\ retry_delay' = InitialRetryDelay
  /\ sleeps' = <<>>
  /\ attempt_log' = Append(attempt_log, <<>>)
  /\ response' = "none"
  /\ req_pc' = "request"
  /\ UNCHANGED <<SessionVars, ToolVars, all_unit_tests>>

(* llm_handler.py:64-71: the attempt returns a text, which is returned *)
AttemptReturnsText ==
  /\ req_pc = "request"
  /\ attempt < max_retries
  /\ attempt_log' = Logged("text")
  /\ response' = "text"
  /\ req_pc' = "respond"
  /\ UNCHANGED <<SessionVars, ToolVars, chunk, attempt, retry_delay, sleeps,
                 all_unit_tests>>

(* A retry that sleeps the same delay every time *)
RetryOrGiveUp_FixedDelay(outcome) ==
  /\ attempt_log' = Logged(outcome)
  /\ IF attempt < max_retries - 1
       THEN /\ sleeps' = Append(sleeps, retry_delay)
            /\ retry_delay' = retry_delay
            /\ attempt' = attempt + 1
            /\ UNCHANGED <<response, req_pc>>
       ELSE /\ response' = "Error"
            /\ req_pc' = "respond"
            /\ UNCHANGED <<sleeps, retry_delay, attempt>>

(* llm_handler.py:74-78 and 88-93: before the last attempt sleep            *)
(* retry_delay, double it and go on with the next attempt; at the last      *)
(* attempt return an "Error: ..." string.                                   *)
RetryOrGiveUp(outcome) ==
  /\ attempt_log' = Logged(outcome)
  /\ IF attempt < max_retries - 1
       THEN /\ sleeps' = Append(sleeps, retry_delay)
            /\ retry_delay' = retry_delay * 2
            /\ attempt' = attempt + 1
            /\ UNCHANGED <<response, req_pc>>
       ELSE /\ response' = "Error"
            /\ req_pc' = "respond"
            /\ UNCHANGED <<sleeps, retry_delay, attempt>>

(* llm_handler.py:72-78: the attempt returns an empty response *)
AttemptReturnsEmpty ==
  /\ req_pc = "request"
  /\ attempt < max_retries
  /\ RetryOrGiveUp("empty")
  /\ UNCHANGED <<SessionVars, ToolVars, chunk, all_unit_tests>>

(* llm_handler.py:80-93: the attempt raises an exception whose text         *)
(* mentions neither "quota" nor "api key"                                   *)
AttemptRaises ==
  /\ req_pc = "request"
  /\ attempt < max_retries
  /\ RetryOrGiveUp("network")
  /\ UNCHANGED <<SessionVars, ToolVars, chunk, all_unit_tests>>

(* llm_handler.py:80-86: the attempt raises an exception whose text         *)
(* mentions "quota" or "api key": an "Error: ..." string is returned at     *)
(* once.                                                                    *)
AttemptRaisesFatal ==
  /\ req_pc = "request"
  /\ attempt < max_retries
  /\ \E outcome \in FatalOutcomes : attempt_log' = Logged(outcome)
  /\ response' = "Error"
  /\ req_pc' = "respond"
  /\ UNCHANGED <<SessionVars, ToolVars, chunk, attempt, retry_delay, sleeps,
                 all_unit_tests>>

(* llm_handler.py:122-139 and test_generator.py:121-126: an "Error:"        *)
(* response gives the fallback tests of the chunk, a text gives the tests   *)
(* parsed from it (none when nothing can be parsed, or when the parse       *)
(* raises and the loop goes on with the next chunk); the loop extends       *)
(* all_unit_tests.                                                          *)
ChunkReturns ==
  /\ req_pc = "respond"
  /\ \E reply \in (IF response = "Error" THEN {LLMError} ELSE 0..MaxRows) :
       all_unit_tests' = all_unit_tests
         \o generate_tests_for_chunk(reply, "Unit Test",
                                     <<BatchFiles[chunk]>>,
                                     {BatchFiles[chunk]})
  /\ req_pc' = "batch"
  /\ UNCHANGED <<SessionVars, ToolVars, chunk, attempt, retry_delay, sleeps,
                 attempt_log, response>>

(* test_generator.py:128-129: the loop is over, the rows are returned *)
BatchDone ==
  /\ req_pc = "batch"
  /\ chunk = MaxChunks
  /\ req_pc' = "done"
  /\ UNCHANGED <<SessionVars, ToolVars, chunk, attempt, retry_delay, sleeps,
                 attempt_log, response, all_unit_tests>>

NextRequest ==
  \/ NextChunk
  \/ AttemptReturnsText
  \/ AttemptReturnsEmpty
  \/ AttemptRaises
  \/ AttemptRaisesFatal
  \/ ChunkReturns
  \/ BatchDone

(* Every attempt of a request returns or raises, and the loop then goes on *)
SpecRequest == InitRequest /\ [][NextRequest]_vars /\ WF_vars(NextRequest)

----------------------------------------------------------------------------
(* Properties of the synthesis batch *)

(* The rows of all_unit_tests that carry the file name of chunk i *)
RowsOfChunk(i) ==
  SelectSeq(all_unit_tests, LAMBDA t : t.file = <<BatchFiles[i]>>)

(* The chunks whose result has been added to all_unit_tests *)
ReturnedChunks ==
  IF req_pc \in {"batch", "done"} THEN 1..chunk ELSE 1..(chunk - 1)

(* The request of chunk i ended without a text *)
RequestFailed(i) ==
  /\ attempt_log[i] # <<>>
  /\ attempt_log[i][Len(attempt_log[i])] # "text"

RequestSafe ==
  /\ req_pc \in {"batch", "request", "respond", "done"}
  /\ attempt < max_retries
  /\ \A i \in 1..Len(attempt_log) : Len(attempt_log[i]) <= max_retries
  /\ Len(sleeps) = attempt
  /\ \A k \in 1..Len(sleeps) :
       sleeps[k] = IF k = 1 THEN InitialRetryDelay ELSE 2 * sleeps[k - 1]
  /\ req_pc = "respond" => response \in {"text", "Error"}
  /\ \A i \in ReturnedChunks :
       RequestFailed(i) =>
         RowsOfChunk(i) = FallbackTests("Unit Test", <<BatchFiles[i]>>,
                                        {BatchFiles[i]})
  /\ req_pc = "done" => Len(attempt_log) = MaxChunks

(* C16: a request that keeps failing ends -- at most max_retries attempts   *)
(* are made, the delays slept between them double, the caller gets an       *)
(* "Error" response and never an exception, the chunk gets its one          *)
(* fallback row, and the batch goes on to its last chunk and returns.       *)
C16_FailingRequestEndsInFallback ==
  []RequestSafe /\ <>(req_pc = "done")

C16_Witness ==
  /\ req_pc = "done"
  /\ chunk = MaxChunks
  /\ attempt_log[1] = <<"network", "empty", "network">>
  /\ RowsOfChunk(1) # <<>>
  /\ sleeps = <<2, 4>>
  /\ Len(attempt_log[chunk]) = max_retries
  /\ RequestFailed(chunk)
  /\ Len(all_unit_tests) = MaxChunks

(* C17, as claimed: a request that ends without a text after transient      *)
(* failures only -- empty responses, network errors, quota errors -- has    *)
(* made all max_retries attempts.                                           *)
C17_TransientFailuresRetriedToTheEnd ==
  \A i \in 1..Len(attempt_log) :
    (/\ i \in ReturnedChunks \/ req_pc = "respond"
     /\ RequestFailed(i)
     /\ Range(attempt_log[i]) \subseteq RetriedOutcomes \cup {"quota"})
      => Len(attempt_log[i]) = max_retries

----------------------------------------------------------------------------
(* The source scan: git_handler.py GitHandler.get_code_files *)

SizeCeiling == 1000000

(* git_handler.py:21-25 *)
code_extensions ==
  {".py", ".js", ".jsx", ".ts", ".tsx", ".java", ".cpp", ".c", ".cs", ".go",
   ".rb", ".php", ".swift", ".kt", ".rs", ".scala", ".r", ".m", ".h", ".hpp",
   ".cc", ".cxx"}

(* git_handler.py:286-291 *)
exclude_dirs ==
  {".git", "node_modules", "venv", ".venv", "env", "__pycache__", "dist",
   "build", "target", ".idea", "vendor", "deps", ".next", "coverage",
   ".pytest_cache", ".mypy_cache", "bin", "obj", "packages", ".gradle",
   ".vs", "Debug", "Release"}

(* The files a scanned directory may hold: another extension, or a code     *)
(* file just below, at and just above the size ceiling, or a code file      *)
(* whose stat() raises.                                                     *)
FileKinds ==
  {[ext |-> ".txt", size |-> SizeCeiling - 1, stat_ok |-> TRUE],
   [ext |-> ".py", size |-> SizeCeiling - 1, stat_ok |-> TRUE],
   [ext |-> ".py", size |-> SizeCeiling, stat_ok |-> TRUE],
   [ext |-> ".py", size |-> SizeCeiling + 1, stat_ok |-> TRUE],
   [ext |-> ".py", size |-> SizeCeiling - 1, stat_ok |-> FALSE]}

DirListings ==
  UNION {[1..n -> FileKinds] : n \in 0..MaxDirFiles}

(* A working tree: the files of the root and one sub-directory with its     *)
(* files, in the order os.walk yields them.                                 *)
ScanTrees ==
  [root : DirListings, sub_name : {"lib", "node_modules"},
   sub : DirListings]

FilesOfDir(tree, d) == IF d = 1 THEN tree.root ELSE tree.sub

(* git_handler.py:298: the sub-directories os.walk descends into *)
WalkedSubDirs(tree) ==
  IF tree.sub_name \notin exclude_dirs THEN {2} ELSE {}

(* git_handler.py:301-311: the file is a code file below the size ceiling *)
IsCollected(file) ==
  /\ file.ext \in code_extensions
  /\ file.stat_ok
  /\ file.size < SizeCeiling

InitScan ==
  /\ pc = "idle"
  /\ now = 0
  /\ cloned = FALSE
  /\ tracked = {}
  /\ disk = <<>>
  /\ current_repo_csv = 0
  /\ change_info = NoInfo
  /\ added_files = <<>>
  /\ modified_files = <<>>
  /\ deleted_files = <<>>
  /\ code_files = <<>>
  /\ parsed = <<>>
  /\ tests = <<>>
  /\ has_tests = FALSE
  /\ prev_csv = 0
  /\ prev_readable = TRUE
  /\ cleaned_csv = 0
  /\ removed_count = 0
  /\ removal_stats = EmptyStats
  /\ csv_file = 0
  /\ scanned = FALSE
  /\ llm_calls = 0
  /\ result = "none"
  /\ start_suite = <<>>
  /\ upstream_commit = 1
  /\ last_commit = 0
  /\ fallback_logged = FALSE
  /\ RequestIdle
  /\ CloneIdle
  /\ DiffIdle
  /\ scan_tree \in ScanTrees
  /\ max_files \in 0..MaxLimit
  /\ scan_pc = "enter"
  /\ scan_dir = 1
  /\ scan_idx = 0
  /\ scan_files = <<>>
  /\ examined = <<>>

(* git_handler.py:296-298: os.walk yields the next directory *)
EnterDirectory ==
  /\ scan_pc = "enter"
  /\ examined' = Append(examined, <<scan_dir, 0>>)
  /\ scan_idx' = 1
  /\ scan_pc' = "files"
  /\ UNCHANGED <<SessionVars, ReqVars, CloneVars, DiffVars, scan_tree,
                 max_files, scan_dir, scan_files>>

(* git_handler.py:300-320: one file of the directory; a code file below     *)
(* the ceiling is appended and the limit is tested after the append (the    *)
(* break leaves the loop over the files).                                   *)
ExamineFile ==
  /\ scan_pc = "files"
  /\ scan_idx <= Len(FilesOfDir(scan_tree, scan_dir))
  /\ examined' = Append(examined, <<scan_dir, scan_idx>>)
  /\ IF IsCollected(FilesOfDir(scan_tree, scan_dir)[scan_idx])
       THEN /\ scan_files' = Append(scan_files, <<scan_dir, scan_idx>>)
            /\ scan_idx' = IF Len(scan_files) + 1 >= max_files
                             THEN Len(FilesOfDir(scan_tree, scan_dir)) + 1
                             ELSE scan_idx + 1
       ELSE /\ scan_files' = scan_files
            /\ scan_idx' = scan_idx + 1
  /\ UNCHANGED <<SessionVars, ReqVars, CloneVars, DiffVars, scan_tree,
                 max_files, scan_pc, scan_dir>>

(* git_handler.py:322-333: after the files of a directory the limit is      *)
(* tested again; the walk goes on with the next directory or the list is    *)
(* returned.                                                                *)
DirectoryDone ==
  /\ scan_pc = "files"
  /\ scan_idx > Len(FilesOfDir(scan_tree, scan_dir))
  /\ IF Len(scan_files) < max_files /\ scan_dir = 1
        /\ WalkedSubDirs(scan_tree) # {}
       THEN /\ scan_dir' = 2
            /\ scan_pc' = "enter"
       ELSE /\ scan_dir' = scan_dir
            /\ scan_pc' = "returned"
  /\ UNCHANGED <<SessionVars, ReqVars, CloneVars, DiffVars, scan_tree,
                 max_files, scan_idx, scan_files, examined>>

NextScan ==
  \/ EnterDirectory
  \/ ExamineFile
  \/ DirectoryDone

SpecScan == InitScan /\ [][NextScan]_vars

----------------------------------------------------------------------------
(* Properties of the source scan *)

(* C21, as claimed: for every max_files >= 0 the scan holds at most         *)
(* max_files paths, and once the collected files have reached max_files no  *)
(* further file or directory is examined.                                   *)
C21_AtMostMaxFilesEarlyExit ==
  [][/\ Len(scan_files') <= max_files
     /\ Len(scan_files) >= max_files => examined' = examined]_vars

ExaminedFiles == {e \in Range(examined) : e[2] > 0}

(* C22, as claimed: a file the scan reached (and whose size can be read)   *)
(* is left out if and only if its extension is not allowed or its size      *)
(* exceeds SizeCeiling; a code file of exactly SizeCeiling bytes is         *)
(* returned.                                                                *)
C22_SkippedIffExtensionOrSize ==
  scan_pc = "returned" =>
    \A e \in ExaminedFiles :
      LET file == FilesOfDir(scan_tree, e[1])[e[2]]
      IN file.stat_ok =>
           ((e \notin Range(scan_files))
              <=> (file.ext \notin code_extensions
                     \/ file.size > SizeCeiling))

----------------------------------------------------------------------------
(* Properties of the rows' source file and of the session record *)

(* C27, as claimed: every row generate_tests produces for the parsed files  *)
(* of the repository flow carries the name of one of those files in its     *)
(* 'file' field.                                                            *)
C27_RowsNameAParsedFile ==
  pc \in {"csv", "append"} =>
    \A k \in 1..Len(tests) :
      /\ Len(tests[k].file) = 1
      /\ PathName(tests[k].file) \in Range(parsed)

(* C28, as claimed: no step taken between two synchronisations of the URL   *)
(* discards the suite file recorded in current_repo_csv, so the second      *)
(* synchronisation looks the previous suite up in the record.               *)
C28_SessionRecordKept ==
  [][(pc = "idle" /\ current_repo_csv # 0 /\ disk[current_repo_csv].exists)
       => current_repo_csv' = current_repo_csv]_vars

----------------------------------------------------------------------------
(* Properties of the order and of the Test IDs of a reconciled suite *)

(* Positions of the previous suite whose row is the carried-forward row r *)
PrevPositions(r) ==
  {j \in 1..Len(PrevRows) : SameButChangeType(PrevRows[j], r)}

(* C25: in the reconciled suite the surviving previous rows keep the        *)
(* relative order they had in the previous suite, and all of them precede   *)
(* every newly appended row.                                                *)
C25_SurvivorsKeepOrderBeforeNew ==
  Reconciled =>
    \A a \in 1..Len(OutRows) : \A b \in 1..Len(OutRows) :
      a < b =>
        /\ IsNewRow(OutRows[a]) => IsNewRow(OutRows[b])
        /\ (~IsNewRow(OutRows[a]) /\ ~IsNewRow(OutRows[b])) =>
             \E ja \in PrevPositions(OutRows[a]) :
             \E jb \in PrevPositions(OutRows[b]) : ja < jb

C25_Witness ==
  /\ pc = "idle" /\ result = "reconciled"
  /\ removed_count > 0
  /\ Len(KeptRows) >= 2
  /\ KeptRows[1] # KeptRows[2]
  /\ Len(OutRows) > Len(KeptRows)
  /\ IsNewRow(OutRows[Len(OutRows)])
  /\ ~IsNewRow(OutRows[1]) /\ ~IsNewRow(OutRows[2])

(* C26, as claimed: in a suite reconciled in the standard format the Test   *)
(* ID values are pairwise distinct, also after rows were removed.           *)
C26_StandardIdsDistinct ==
  (Reconciled /\ disk[csv_file].fmt = "standard"
     /\ disk[prev_csv].fmt = "standard") =>
    \A a \in 1..Len(OutRows) : \A b \in 1..Len(OutRows) :
      a # b => OutRows[a].id # OutRows[b].id

----------------------------------------------------------------------------
(* Cloning: git_handler.py GitHandler.clone_repository with                 *)
(* get_default_branch and _sanitize_repo_name.  A URL is the sequence of    *)
(* its segments between the slashes, a segment a sequence of characters.    *)

SegHost == <<"h", "o", "s", "t">>
SegAlice == <<"a", "l", "i", "c", "e">>
SegBob == <<"b", "o", "b">>
SegApp == <<"a", "p", "p">>
SegLib == <<"l", "i", "b">>
DotGit == <<".", "g", "i", "t">>

(* host/alice/app, host/bob/app, host/alice/app.git, host/alice/lib/ *)
RepoUrls ==
  {<<SegHost, SegAlice, SegApp>>, <<SegHost, SegBob, SegApp>>,
   <<SegHost, SegAlice, SegApp \o DotGit>>,
   <<SegHost, SegAlice, SegLib, <<>>>>}

(* str.isalnum() on the characters of the URLs, and '-', '_' *)
KeptChars ==
  {"a", "b", "c", "d", "e", "f", "g", "h", "i", "j", "k", "l", "m", "n",
   "o", "p", "q", "r", "s", "t", "u", "v", "w", "x", "y", "z", "0", "1",
   "2", "3", "4", "5", "6", "7", "8", "9", "-", "_"}

(* str.rstrip('/'): the empty segments at the end are dropped *)
RECURSIVE RStripSlash(_)
RStripSlash(url) ==
  IF url # <<>> /\ url[Len(url)] = <<>>
    THEN RStripSlash(SubSeq(url, 1, Len(url) - 1))
    ELSE url

EndsWithDotGit(name) ==
  /\ Len(name) >= Len(DotGit)
  /\ SubSeq(name, Len(name) - Len(DotGit) + 1, Len(name)) = DotGit

(* git_handler.py:407-422 *)
_sanitize_repo_name(repo_url) ==
  LET stripped == RStripSlash(repo_url)
      last == IF stripped = <<>> THEN <<>> ELSE stripped[Len(stripped)]
      base == IF EndsWithDotGit(last)
                THEN SubSeq(last, 1, Len(last) - Len(DotGit)) ELSE last
      name == SelectSeq(base, LAMBDA c : c \in KeptChars)
  IN IF name = <<>> THEN <<"r", "e", "p", "o">> ELSE name

(* The remote repositories: the heads `git ls-remote --heads` lists and     *)
(* the branch HEAD points to.                                               *)
RemoteBranches == <<"dev", "main">>
RemoteDefault == "dev"

RequestedBranches == {"", "main", "dev", "gone"}
RequestedDepths == {1, 5}

(* git_handler.py:114-118: the first of the preferred names that exists *)
PreferredBranches == <<"main", "master", "develop", "dev">>

(* git_handler.py:59-134; ls: what the two ls-remote calls gave *)
get_default_branch(ls) ==
  IF ls = "symref" THEN RemoteDefault
  ELSE IF ls = "heads"
    THEN LET hits == SelectSeq(PreferredBranches,
                               LAMBDA b : b \in Range(RemoteBranches))
         IN IF hits # <<>> THEN hits[1] ELSE RemoteBranches[1]
  ELSE "main"

SessionIdle ==
  /\ pc = "idle"
  /\ now = 0
  /\ cloned = FALSE
  /\ tracked = {}
  /\ disk = <<>>
  /\ current_repo_csv = 0
  /\ change_info = NoInfo
  /\ added_files = <<>>
  /\ modified_files = <<>>
  /\ deleted_files = <<>>
  /\ code_files = <<>>
  /\ parsed = <<>>
  /\ tests = <<>>
  /\ has_tests = FALSE
  /\ prev_csv = 0
  /\ prev_readable = TRUE
  /\ cleaned_csv = 0
  /\ removed_count = 0
  /\ removal_stats = EmptyStats
  /\ csv_file = 0
  /\ scanned = FALSE
  /\ llm_calls = 0
  /\ result = "none"
  /\ start_suite = <<>>
  /\ upstream_commit = 1
  /\ last_commit = 0
  /\ fallback_logged = FALSE

(* GitHandler(): temp_repos/ holds no working copy *)
InitClone ==
  /\ SessionIdle
  /\ RequestIdle
  /\ ScanIdle
  /\ DiffIdle
  /\ CloneIdle

OutsideClone == <<SessionVars, ReqVars, ScanVars, DiffVars>>

(* The working copy at the path of the call's repository *)
CopiesAt(dirs, repo_url) ==
  {w \in dirs : w.name = _sanitize_repo_name(repo_url)}

(* git_handler.py:136-155: a call clone_repository(repo_url, branch, depth) *)
CallClone ==
  /\ clone_pc \in {"idle", "done"}
  /\ \E repo_url \in RepoUrls, branch \in RequestedBranches,
        depth \in RequestedDepths :
       /\ clone_req' = [url |-> repo_url, branch |-> branch, depth |-> depth,
                        before |-> workdirs]
       /\ clone_branch' = branch
  /\ clone_result' = "none"
  /\ clone_pc' = "detect"
  /\ UNCHANGED <<OutsideClone, workdirs>>

(* git_handler.py:160-165: no branch, or 'main', is replaced by the         *)
(* detected default branch                                                  *)
DetectBranch ==
  /\ clone_pc = "detect"
  /\ IF clone_branch = "" \/ clone_branch = "main"
       THEN \E ls \in {"symref", "heads", "failed"} :
              clone_branch' = get_default_branch(ls)
       ELSE clone_branch' = clone_branch
  /\ clone_pc' = "remove"
  /\ UNCHANGED <<OutsideClone, workdirs, clone_req, clone_result>>

(* git_handler.py:167-174: what is at the path of the repository is removed *)
RemoveExisting ==
  /\ clone_pc = "remove"
  /\ workdirs' = workdirs \ CopiesAt(workdirs, clone_req.url)
  /\ clone_pc' = "clone"
  /\ UNCHANGED <<OutsideClone, clone_req, clone_branch, clone_result>>

NewCopy(branch) ==
  [name |-> _sanitize_repo_name(clone_req.url), url |-> clone_req.url,
   branch |-> branch, depth |-> clone_req.depth]

(* git_handler.py:176-195, 226-237: git clone --branch succeeds *)
CloneSucceeds ==
  /\ clone_pc = "clone"
  /\ clone_branch \in Range(RemoteBranches)
  /\ CopiesAt(workdirs, clone_req.url) = {}
  /\ workdirs' = workdirs \cup {NewCopy(clone_branch)}
  /\ clone_result' = "ok"
  /\ clone_pc' = "done"
  /\ UNCHANGED <<OutsideClone, clone_req, clone_branch>>

(* git_handler.py:197-217: the branch is not found and the clone without    *)
(* --branch succeeds: the working copy is on the remote's default branch    *)
CloneWithoutBranch ==
  /\ clone_pc = "clone"
  /\ clone_branch \notin Range(RemoteBranches)
  /\ CopiesAt(workdirs, clone_req.url) = {}
  /\ workdirs' = workdirs \cup {NewCopy(RemoteDefault)}
  /\ clone_result' = "ok"
  /\ clone_pc' = "done"
  /\ UNCHANGED <<OutsideClone, clone_req, clone_branch>>

(* git_handler.py:218-224, 239-248: git clone exits non-zero, times out or  *)
(* git is missing: an Exception is raised                                   *)
CloneFails ==
  /\ clone_pc = "clone"
  /\ clone_result' = "raised"
  /\ clone_pc' = "done"
  /\ UNCHANGED <<OutsideClone, workdirs, clone_req, clone_branch>>

NextClone ==
  \/ CallClone
  \/ DetectBranch
  \/ RemoveExisting
  \/ CloneSucceeds
  \/ CloneWithoutBranch
  \/ CloneFails

SpecClone == InitClone /\ [][NextClone]_vars

----------------------------------------------------------------------------
(* Properties of cloning *)

(* C23, as claimed: when no working copy existed for the URL and a branch   *)
(* was requested, a successful clone_repository leaves the working copy on  *)
(* the requested branch at the requested depth.                             *)
C23_CloneChecksOutRequestedBranch ==
  (/\ clone_pc = "done" /\ clone_result = "ok"
   /\ clone_req.branch # ""
   /\ CopiesAt(clone_req.before, clone_req.url) = {}) =>
    \E w \in CopiesAt(workdirs, clone_req.url) :
      /\ w.url = clone_req.url
      /\ w.branch = clone_req.branch
      /\ w.depth = clone_req.depth

(* C29, as claimed: distinct URLs have distinct sanitized names, so that a  *)
(* call for one repository leaves the working copies of every other         *)
(* repository in place.                                                     *)
C29_OtherRepositoriesUntouched ==
  [][\A w \in workdirs :
       w.url # clone_req'.url =>
         /\ w \in workdirs'
         /\ _sanitize_repo_name(w.url) # _sanitize_repo_name(clone_req'.url)
    ]_vars

(* C30, as claimed: a call of clone_repository that raises leaves the       *)
(* working copies as they were when it was called.                          *)
C30_FailedCloneLeavesStateUnchanged ==
  (clone_pc = "done" /\ clone_result = "raised") =>
    workdirs = clone_req.before

----------------------------------------------------------------------------
(* The function-level diff (get_function_changes, called at app.py:823):    *)
(* diff_functions(old_parsed, new_parsed) of the specification, 4.3.        *)

FunctionNames == {"f", "g", "h"}
FunctionBodies == {"body 1", "body 2"}

(* A parsed version: the functions the parser lists, in source order; a     *)
(* name may be listed twice.                                                *)
ParsedVersions ==
  UNION {[1..n -> [name : FunctionNames, body : FunctionBodies]] :
           n \in 0..MaxFunctions}

NamesOf(version) ==
  IF version = NoVersion THEN {}
  ELSE {version[i].name : i \in 1..Len(version)}

(* The name -> body-text map of a version: a later entry of a name          *)
(* replaces an earlier one.                                                 *)
BodyOf(version, name) ==
  LET last == CHOOSE i \in 1..Len(version) :
                /\ version[i].name = name
                /\ \A j \in (i + 1)..Len(version) : version[j].name # name
  IN version[last].body

(* A diff that puts every name of the new version whose body is not that    *)
(* of the old version into modified                                         *)
diff_functions_ModifiedTakesNew(old, new) ==
  [added |-> NamesOf(new) \ NamesOf(old),
   removed |-> NamesOf(old) \ NamesOf(new),
   modified |-> {n \in NamesOf(new) :
                   n \notin NamesOf(old)
                   \/ BodyOf(old, n) # BodyOf(new, n)}]

(* Set difference on the names for added and removed; for a name in both    *)
(* versions the body texts decide on modified.  Without a previous version  *)
(* every function is added.                                                 *)
diff_functions(old, new) ==
  [added |-> NamesOf(new) \ NamesOf(old),
   removed |-> NamesOf(old) \ NamesOf(new),
   modified |-> {n \in NamesOf(new) \cap NamesOf(old) :
                   BodyOf(old, n) # BodyOf(new, n)}]

OutsideDiff == <<SessionVars, ReqVars, ScanVars, CloneVars>>

InitDiff ==
  /\ SessionIdle
  /\ RequestIdle
  /\ ScanIdle
  /\ CloneIdle
  /\ old_parsed \in ParsedVersions \cup {NoVersion}
  /\ new_parsed \in ParsedVersions
  /\ function_changes = NoFunctionChanges

(* The two parsed versions of a modified file are compared *)
CompareVersions ==
  /\ function_changes' = diff_functions(old_parsed, new_parsed)
  /\ UNCHANGED <<OutsideDiff, old_parsed, new_parsed>>

NextDiff == CompareVersions

SpecDiff == InitDiff /\ [][NextDiff]_vars

(* C24: the added, removed and modified sets of a function-level diff are   *)
(* pairwise disjoint.                                                       *)
C24_FunctionSetsPairwiseDisjoint ==
  /\ function_changes.added \cap function_changes.removed = {}
  /\ function_changes.added \cap function_changes.modified = {}
  /\ function_changes.removed \cap function_changes.modified = {}

C24_Witness ==
  /\ old_parsed # NoVersion
  /\ function_changes.added # {}
  /\ function_changes.removed # {}
  /\ function_changes.modified # {}

====
